---- MODULE Spec2Model ----
(***************************************************************************)
(* State machine of the BuggerApp dashboard component (src/index.tsx).     *)
(*                                                                         *)
(* The React state cells (logs, threats, metrics, isShieldActive,          *)
(* isScanning, terminalText) are the variables.  Every event handler, the  *)
(* interval callback and the continuation of handleDeepScan after its      *)
(* await run to completion on the single JavaScript thread, and React 18   *)
(* batches the state setters called inside one of them into one commit, so *)
(* each is one atomic action that applies its functional updaters to the   *)
(* latest state.                                                           *)
(*                                                                         *)
(* Numbers: gauges are whole units.  A Math.random() draw u in [0,1) is    *)
(* the integer 100*u (hundredths), and the draws offered to the interval   *)
(* callback are those whose perturbation is a whole number.                *)
(* JavaScript values that need not be numbers (metrics.threatLevel after   *)
(* it was assigned result.overallThreatScore) are tagged records.          *)
(***************************************************************************)
EXTENDS Integers, Sequences, FiniteSets, TLC

VARIABLES
    logs,            \* useState<LogEntry[]>          (line 37)
    threats,         \* useState<Threat[]>            (line 38)
    metrics,         \* useState<SystemMetrics>       (line 39)
    isShieldActive,  \* useState(true)                (line 40)
    isScanning,      \* useState(false)               (line 41)
    terminalText,    \* useState("")                  (line 42)
    oracle,          \* the requests of the generateContent calls in flight
    clock,           \* wall clock, in seconds since the component mounted
    steps,           \* history: handlers and callbacks run so far
    scanRefused,     \* history: the last handler to run was a handleDeepScan
                     \* that returned at its guard
    delivered,       \* history: the outcome the await delivered, if the last
                     \* handler to run was the continuation of handleDeepScan
    patchedId        \* history: the id passed, if the last handler to run
                     \* was patchThreat

vars == <<logs, threats, metrics, isShieldActive, isScanning, terminalText,
          oracle, clock, steps, scanRefused, delivered, patchedId>>

\* The state the presentation layer observes.
appState == <<logs, threats, metrics, isShieldActive, isScanning, terminalText>>

-----------------------------------------------------------------------------
(* Bounds of the model *)

\* Handler and callback runs explored by Spec.
MaxSteps == 6

\* Interval callbacks explored by SpecLongRun (enough to overflow the log).
MaxLongRunTicks == 52

\* Audit entries of patchThreat that may be in the log at once in SpecLongRun.
MaxPatchLogs == 2

MaxLiveSteps == 4

-----------------------------------------------------------------------------
(* Program constants *)

\* prev.slice(-49) followed by the new entry: the telemetry log keeps 50.
LogCap == 50

\* .slice(0, 10) of the threat list.
ThreatCap == 10

\* Math.max(0, prev.threatLevel - 15)
PatchDecay == 15

\* Math.min(100, ...) of the interval callback's gauges.
GaugeMax == 100

\* setInterval(..., 2000): seconds between two interval callbacks.
TickPeriod == 2

\* logs.slice(-10) of the scan prompt.
PromptLogs == 10

LOG_SOURCES == <<"Kernel", "AuthSvc", "NetStack", "DataLayer", "UIRenderer", "LeakGuard">>

msgs == <<"Heartbeat signal received",
          "GET /api/v1/user 200 OK",
          "Cache invalidated for key: session_4x9",
          "Memory cleanup routine triggered",
          "Inbound packet from 192.168.1.45 accepted",
          "Database connection pool synchronized",
          "Third-party endpoint blocked by LeakGuard",
          "Unexpected token in JSON parsing attempt",
          "Resource allocation threshold reached">>

ScanStartingText == "Initializing neural scan... \nAccessing application bytecode... \nAnalyzing outbound patterns..."

ScanCompleteText == "Scan Complete. Vulnerabilities cataloged."

ScanInterruptedText == "Scan interrupted: Connection to AI core lost."

-----------------------------------------------------------------------------
(* JavaScript values *)

JSNum(n) == [tag |-> "number", num |-> n]

JSUndefined == [tag |-> "undefined", num |-> 0]

JSNaN == [tag |-> "NaN", num |-> 0]

JSString == [tag |-> "string", num |-> 0]

IsNum(v) == v.tag = "number"

\* v - k for a number k: arithmetic on undefined or on a non-numeric string is NaN.
JSMinus(v, k) == IF IsNum(v) THEN JSNum(v.num - k) ELSE JSNaN

\* Math.max(0, v): NaN if v is NaN.
JSMax0(v) == IF IsNum(v) THEN JSNum(IF v.num > 0 THEN v.num ELSE 0) ELSE JSNaN

Min(a, b) == IF a < b THEN a ELSE b

Max(a, b) == IF a > b THEN a ELSE b

\* A field that an object does not have.
Missing == "<missing>"

-----------------------------------------------------------------------------
(* Array helpers *)

\* arr.slice(-n)
SliceLast(arr, n) == SubSeq(arr, Max(1, Len(arr) - n + 1), Len(arr))

\* arr.slice(0, n)
SliceFirst(arr, n) == SubSeq(arr, 1, Min(n, Len(arr)))

\* arr[Math.floor(u * arr.length)] for the draw u (hundredths)
Pick(arr, u) == arr[((u * Len(arr)) \div 100) + 1]

-----------------------------------------------------------------------------
(* The oracle: outcomes of ai.models.generateContent and of JSON.parse *)

\* A finding object of result.findings.  A field the object lacks is Missing;
\* id and status are own properties the schema does not ask for.
Finding(type, severity, description, remediation) ==
    [type |-> type, severity |-> severity, description |-> description,
     remediation |-> remediation, id |-> Missing, status |-> Missing]

FLeak == Finding("leak", "high", "d", "r")

FBug == Finding("bug", "low", "d2", "r2")

FBadSeverity == Finding("leak", "severe", "d", "r")

FNoRemediation == Finding("leak", "critical", "d", Missing)

FOwnId == [Finding("xss", "medium", "d3", "r3") EXCEPT !.id = "r1", !.status = "analyzing"]

\* The outcome of one generateContent call, as the await and JSON.parse of
\* handleDeepScan see it:
\*   kind "none"      no await has delivered anything
\*   kind "rejected"  the promise rejects (transport error, oracle error)
\*   kind "text"      response.text is not JSON: JSON.parse throws
\*   kind "json"      JSON.parse returns result; shape says what result.findings
\*                    is ("array", "missing", "notArray"), findings holds the
\*                    array and score is result.overallThreatScore
Outcome(kind, shape, findings, score) ==
    [kind |-> kind, shape |-> shape, findings |-> findings, score |-> score]

NotResumed == Outcome("none", "missing", <<>>, JSUndefined)

Rejected == Outcome("rejected", "missing", <<>>, JSUndefined)

NotJson == Outcome("text", "missing", <<>>, JSUndefined)

Json(findings, score) == Outcome("json", "array", findings, score)

NoFindings == Outcome("json", "missing", <<>>, JSNum(10))

FindingsNotArray == Outcome("json", "notArray", <<>>, JSNum(10))

\* More findings than the registry holds.
ManyFindings == [i \in 1..(ThreatCap + 1) |-> FBug]

\* The required shape of the oracle's answer (responseSchema, lines 111-128).
Severities == {"low", "medium", "high", "critical"}

FindingWellFormed(f) ==
    /\ f.type /= Missing
    /\ f.severity \in Severities
    /\ f.description /= Missing
    /\ f.remediation /= Missing

WellFormed(r) ==
    /\ r.kind = "json"
    /\ r.shape = "array"
    /\ \A i \in 1..Len(r.findings) : FindingWellFormed(r.findings[i])
    /\ IsNum(r.score)

\* The call failed: the promise rejected or the body is no JSON.
CallFailed(r) == r.kind \in {"rejected", "text"}

\* The oracle outcomes explored by Spec.
Outcomes ==
    {Rejected, NotJson, NoFindings, FindingsNotArray,
     Json(<<FLeak>>, JSNum(42)),
     Json(<<FBug, FLeak>>, JSNum(100)),
     Json(<<FBadSeverity>>, JSNum(50)),
     Json(<<FNoRemediation>>, JSNum(0)),
     Json(<<FLeak>>, JSUndefined),
     Json(<<>>, JSString),
     Json(<<>>, JSNum(150)),
     Json(<<>>, JSNum(-5)),
     Json(ManyFindings, JSNum(60)),
     Json(<<FOwnId, FLeak>>, JSNum(30))}

\* The strings Math.random().toString(36).substr(2, 9) returns to the calls of
\* one result.findings.map: all different, or the first two equal.
IdDraws ==
    {[i \in 1..(ThreatCap + 1) |-> "r" \o ToString(i)],
     [i \in 1..(ThreatCap + 1) |-> "r" \o ToString(IF i = 1 THEN 2 ELSE i)]}

\* The ids the operator's patch intents carry: "zz" is never an id of a threat.
PatchIds == {"r1", "r2", "zz"}


-----------------------------------------------------------------------------
(* History *)

\* No id was passed: the handler was not patchThreat.
NoPatch == ""

\* Every handler and callback records that it ran: whether it was a
\* handleDeepScan returning at its guard, the outcome its await delivered and
\* the id it was passed as patchThreat.
Ran(refused, outcome, id) ==
    /\ steps' = steps + 1
    /\ scanRefused' = refused
    /\ delivered' = outcome
    /\ patchedId' = id

-----------------------------------------------------------------------------
(* The interval callback (telemetry tick) *)

\* Math.random() > 0.9 ? 'error' : (Math.random() > 0.8 ? 'warning' : 'info')
LevelOf(u1, u2) == IF u1 > 90 THEN "error" ELSE IF u2 > 80 THEN "warning" ELSE "info"

\* (Math.random() - 0.5) * scale, for a draw whose perturbation is whole
Perturb(u, scale) == ((u - 50) * scale) \div 100

\* Math.min(100, Math.max(0, v))
Clamp(v) == Min(GaugeMax, Max(0, v))

\* toLocaleTimeString('en-GB', { hour12: false }): HH:MM:SS of the wall clock
TimeString(t) == <<(t \div 3600) % 24, (t \div 60) % 60, t % 60>>

\* The Math.random() draws of one interval callback: the id string of the entry
\* and, in hundredths, the draws for the level (two), the message, the source
\* and the three gauges.
DrawQuiet ==
    [id |-> "k1", uLevel1 |-> 50, uLevel2 |-> 50, uMsg |-> 15, uSrc |-> 40,
     uCpu |-> 50, uMem |-> 50, uNet |-> 50]

DrawLow ==
    [id |-> "k2", uLevel1 |-> 95, uLevel2 |-> 10, uMsg |-> 80, uSrc |-> 0,
     uCpu |-> 10, uMem |-> 0, uNet |-> 0]

DrawHigh ==
    [id |-> "k1", uLevel1 |-> 30, uLevel2 |-> 85, uMsg |-> 70, uSrc |-> 99,
     uCpu |-> 90, uMem |-> 50, uNet |-> 90]

TickDraws == {DrawQuiet, DrawLow}

LongRunDraws == {DrawHigh}

\* const newLog: LogEntry = {...}
NewLog(d, t) ==
    [id        |-> d.id,
     timestamp |-> TimeString(t),
     level     |-> LevelOf(d.uLevel1, d.uLevel2),
     message   |-> Pick(msgs, d.uMsg),
     source    |-> Pick(LOG_SOURCES, d.uSrc)]

\* The wrong end evicted: [...prev.slice(0, 49), newLog]
AppendDropsNewest(prev, newLog) == Append(SliceFirst(prev, LogCap - 1), newLog)

\* setLogs(prev => [...prev.slice(-49), newLog])
AppendTelemetry(prev, newLog) == Append(SliceLast(prev, LogCap - 1), newLog)

\* setMetrics(prev => ({cpu: ..., memory: ..., network: ..., threatLevel: prev.threatLevel}))
FluctuateMetrics(prev, d) ==
    [cpu         |-> Clamp(prev.cpu + Perturb(d.uCpu, 5)),
     memory      |-> Clamp(prev.memory + Perturb(d.uMem, 2)),
     network     |-> Clamp(prev.network + Perturb(d.uNet, 10)),
     threatLevel |-> prev.threatLevel]

\* One firing of the setInterval callback, TickPeriod seconds after the last.
Tick(d) ==
    /\ clock' = clock + TickPeriod
    /\ logs' = AppendTelemetry(logs, NewLog(d, clock'))
    /\ metrics' = FluctuateMetrics(metrics, d)
    /\ Ran(FALSE, NotResumed, NoPatch)
    /\ UNCHANGED <<threats, isShieldActive, isScanning, terminalText, oracle>>

-----------------------------------------------------------------------------
(* Operator intents other than the scan *)

\* The patch held back while a scan is in flight.
MarkPatchedWhenIdle(prev, id) ==
    [i \in 1..Len(prev) |->
        IF prev[i].id = id /\ ~isScanning
        THEN [prev[i] EXCEPT !.status = "patched"]
        ELSE prev[i]]

\* prev.map(t => t.id === id ? { ...t, status: 'patched' } : t)
MarkPatched(prev, id) ==
    [i \in 1..Len(prev) |->
        IF prev[i].id = id THEN [prev[i] EXCEPT !.status = "patched"] ELSE prev[i]]

\* The floor left out: ({ ...prev, threatLevel: prev.threatLevel - 15 })
DecayNoFloor(prev) ==
    [prev EXCEPT !.threatLevel = JSMinus(prev.threatLevel, PatchDecay)]

\* ({ ...prev, threatLevel: Math.max(0, prev.threatLevel - 15) })
DecayThreatLevel(prev) ==
    [prev EXCEPT !.threatLevel = JSMax0(JSMinus(prev.threatLevel, PatchDecay))]

\* const patchLog: LogEntry = {...}
PatchLog(id, t) ==
    [id        |-> "patch-" \o id,
     timestamp |-> TimeString(t),
     level     |-> "security",
     message   |-> "THREAT NEUTRALIZED: Applied patch to system core",
     source    |-> "LeakGuard"]

\* setLogs(prev => [...prev, patchLog])
AppendPatchLog(prev, patchLog) == Append(prev, patchLog)

patchThreat(id) ==
    /\ threats' = MarkPatched(threats, id)
    /\ metrics' = DecayThreatLevel(metrics)
    /\ logs' = AppendPatchLog(logs, PatchLog(id, clock))
    /\ Ran(FALSE, NotResumed, id)
    /\ UNCHANGED <<isShieldActive, isScanning, terminalText, oracle, clock>>

IsNotPatched(t) == t.status /= "patched"

IsPatched(t) == t.status = "patched"

\* The test inverted: prev.filter(t => t.status === 'patched')
RemoveUnpatched(prev) == SelectSeq(prev, IsPatched)

\* prev.filter(t => t.status !== 'patched')
RemovePatched(prev) == SelectSeq(prev, IsNotPatched)

clearPatched ==
    /\ threats' = RemovePatched(threats)
    /\ Ran(FALSE, NotResumed, NoPatch)
    /\ UNCHANGED <<logs, metrics, isShieldActive, isScanning, terminalText,
                   oracle, clock>>

\* onClick={() => setIsShieldActive(!isShieldActive)}
toggleShield ==
    /\ isShieldActive' = ~isShieldActive
    /\ Ran(FALSE, NotResumed, NoPatch)
    /\ UNCHANGED <<logs, threats, metrics, isScanning, terminalText, oracle,
                   clock>>

-----------------------------------------------------------------------------
(* handleDeepScan *)

\* logs.slice(-10).map(l => `[${l.level}] ${l.source}: ${l.message}`) and the
\* shield line of the prompt
Prompt(ls, shield) ==
    [lines  |-> [i \in 1..Len(SliceLast(ls, PromptLogs)) |->
                    <<SliceLast(ls, PromptLogs)[i].level,
                      SliceLast(ls, PromptLogs)[i].source,
                      SliceLast(ls, PromptLogs)[i].message>>],
     shield |-> IF shield THEN "ACTIVE" ELSE "INACTIVE"]

\* The guard left out: a click always starts a scan.
ScanNeverBlocked == FALSE

\* The shield made a precondition: if (isScanning || !isShieldActive) return;
ScanBlockedByShield == isScanning \/ ~isShieldActive

\* if (isScanning) return;
ScanBlocked == isScanning

\* The synchronous part of handleDeepScan, up to the await.
handleDeepScan ==
    IF ScanBlocked
    THEN /\ Ran(TRUE, NotResumed, NoPatch)
         /\ UNCHANGED <<logs, threats, metrics, isShieldActive, isScanning,
                        terminalText, oracle, clock>>
    ELSE /\ isScanning' = TRUE
         /\ terminalText' = ScanStartingText
         /\ oracle' = Append(oracle, Prompt(logs, isShieldActive))
         /\ Ran(FALSE, NotResumed, NoPatch)
         /\ UNCHANGED <<logs, threats, metrics, isShieldActive, clock>>

\* JSON.parse moved out of the try block: only a rejected await is caught.
ThrowsOnReject(r) == r.kind = "rejected"

\* The try block throws before any setter is called: the await rejects,
\* JSON.parse throws, or result.findings.map is no function.
Throws(r) == CallFailed(r) \/ r.shape /= "array"

\* The spread put last: ({ id: Math.random()..., status: 'active', ...f })
NewThreatsSpreadLast(findings, ids) ==
    [i \in 1..Len(findings) |->
        [id          |-> IF findings[i].id /= Missing THEN findings[i].id ELSE ids[i],
         type        |-> findings[i].type,
         severity    |-> findings[i].severity,
         description |-> findings[i].description,
         remediation |-> findings[i].remediation,
         status      |-> IF findings[i].status /= Missing
                         THEN findings[i].status
                         ELSE "active"]]

\* result.findings.map(f => ({ id: Math.random()..., ...f, status: 'active' }))
NewThreats(findings, ids) ==
    [i \in 1..Len(findings) |->
        [id          |-> IF findings[i].id /= Missing THEN findings[i].id ELSE ids[i],
         type        |-> findings[i].type,
         severity    |-> findings[i].severity,
         description |-> findings[i].description,
         remediation |-> findings[i].remediation,
         status      |-> "active"]]

\* The new threats put behind the old ones: [...prev, ...newThreats].slice(0, 10)
IngestBehind(prev, newThreats) == SliceFirst(prev \o newThreats, ThreatCap)

\* Unresolved threats retained before patched ones:
\* [...newThreats, ...active of prev, ...patched of prev].slice(0, 10)
IngestActiveFirst(prev, newThreats) ==
    SliceFirst(newThreats \o SelectSeq(prev, IsNotPatched) \o SelectSeq(prev, IsPatched),
               ThreatCap)

\* The slice left out: [...newThreats, ...prev]
IngestUncapped(prev, newThreats) == newThreats \o prev

\* setThreats(prev => [...newThreats, ...prev].slice(0, 10))
Ingest(prev, newThreats) == SliceFirst(newThreats \o prev, ThreatCap)

\* The metrics object rebuilt instead of spread:
\* setMetrics({ cpu: 12, memory: 45, network: 8, threatLevel: score })
SetThreatScoreFromMount(prev, score) ==
    [cpu |-> 12, memory |-> 45, network |-> 8, threatLevel |-> score]

\* A decay made during the scan carried over into the score:
\* threatLevel: Math.min(prev.threatLevel, result.overallThreatScore)
SetThreatScoreMin(prev, score) ==
    [prev EXCEPT !.threatLevel =
        IF IsNum(prev.threatLevel) /\ IsNum(score)
        THEN JSNum(Min(prev.threatLevel.num, score.num))
        ELSE score]

\* setMetrics(prev => ({ ...prev, threatLevel: result.overallThreatScore }))
SetThreatScore(prev, score) == [prev EXCEPT !.threatLevel = score]

Remove(arr, i) == SubSeq(arr, 1, i - 1) \o SubSeq(arr, i + 1, Len(arr))

\* setIsScanning(false) at the end of the try block instead of in a finally.
handleDeepScanResumeNoFinally(i, r, ids) ==
    /\ i \in 1..Len(oracle)
    /\ IF Throws(r)
       THEN /\ terminalText' = ScanInterruptedText
            /\ UNCHANGED <<threats, metrics, isScanning>>
       ELSE /\ threats' = Ingest(threats, NewThreats(r.findings, ids))
            /\ metrics' = SetThreatScore(metrics, r.score)
            /\ terminalText' = ScanCompleteText
            /\ isScanning' = FALSE
    /\ oracle' = Remove(oracle, i)
    /\ Ran(FALSE, r, NoPatch)
    /\ UNCHANGED <<logs, isShieldActive, clock>>

\* The continuation of handleDeepScan after the await: the call in flight at
\* position i ends with outcome r; ids are the Math.random() id strings.
handleDeepScanResume(i, r, ids) ==
    /\ i \in 1..Len(oracle)
    /\ IF Throws(r)
       THEN /\ terminalText' = ScanInterruptedText
            /\ UNCHANGED <<threats, metrics>>
       ELSE /\ threats' = Ingest(threats, NewThreats(r.findings, ids))
            /\ metrics' = SetThreatScore(metrics, r.score)
            /\ terminalText' = ScanCompleteText
    /\ isScanning' = FALSE
    /\ oracle' = Remove(oracle, i)
    /\ Ran(FALSE, r, NoPatch)
    /\ UNCHANGED <<logs, isShieldActive, clock>>

-----------------------------------------------------------------------------
(* Specifications *)

Init ==
    /\ logs = <<>>
    /\ threats = <<>>
    /\ metrics = [cpu |-> 12, memory |-> 45, network |-> 8, threatLevel |-> JSNum(2)]
    /\ isShieldActive = TRUE
    /\ isScanning = FALSE
    /\ terminalText = ""
    /\ oracle = <<>>
    /\ clock = 0
    /\ steps = 0
    /\ scanRefused = FALSE
    /\ delivered = NotResumed
    /\ patchedId = NoPatch

IsPatchLog(l) == l.level = "security"

\* Audit entries of patchThreat in the log.
PatchLogs(ls) == Len(SelectSeq(ls, IsPatchLog))

\* The runs explored by Spec stop after MaxSteps handlers and callbacks.
InBudget == steps < MaxSteps

TickStep == InBudget /\ \E d \in TickDraws : Tick(d)

PatchStep == InBudget /\ \E id \in PatchIds : patchThreat(id)

ScanStep == InBudget /\ handleDeepScan

ResumeStep ==
    /\ InBudget
    /\ \E i \in 1..Len(oracle) : \E r \in Outcomes : \E ids \in IdDraws :
          handleDeepScanResume(i, r, ids)

ClearStep == InBudget /\ clearPatched

ToggleStep == InBudget /\ toggleShield

Next ==
    \/ TickStep
    \/ PatchStep
    \/ ScanStep
    \/ ResumeStep
    \/ ClearStep
    \/ ToggleStep

\* Every interleaving of the handlers, MaxSteps runs long.
Spec == Init /\ [][Next]_vars

LongRunTick == clock < MaxLongRunTicks * TickPeriod /\ \E d \in LongRunDraws : Tick(d)

LongRunPatch == PatchLogs(logs) < MaxPatchLogs /\ patchThreat("zz")

LongRunNext == LongRunTick \/ LongRunPatch

\* A long run of the interval callback, with patch intents in between.
SpecLongRun == Init /\ [][LongRunNext]_vars

\* The runs explored by SpecLive stop starting handlers after MaxLiveSteps.
InLiveBudget == steps < MaxLiveSteps

LiveTick == InLiveBudget /\ \E d \in TickDraws : Tick(d)

LiveScan == InLiveBudget /\ handleDeepScan

LiveToggle == InLiveBudget /\ toggleShield

\* The continuation is not held back: a call in flight can always end.
LiveResume ==
    \E i \in 1..Len(oracle) : \E r \in Outcomes : \E ids \in IdDraws :
        handleDeepScanResume(i, r, ids)

LiveNext ==
    \/ LiveTick
    \/ LiveScan
    \/ LiveToggle
    \/ LiveResume

\* Scans among ticks and shield toggles, where every call in flight ends
\* sooner or later: generateContent settles, with a response or a rejection.
SpecLive == Init /\ [][LiveNext]_vars /\ WF_vars(LiveResume)

-----------------------------------------------------------------------------
(* Steps, as the properties below recognise them *)

\* This step is a call of patchThreat(id).
IsPatchCall(id) == steps' = steps + 1 /\ patchedId' = id

\* This step is the continuation of handleDeepScan after its await.
IsResume == steps' = steps + 1 /\ delivered' /= NotResumed

\* A threat with this id is in the registry.
Known(id) == \E i \in 1..Len(threats) : threats[i].id = id

\* A threat with this id and this status is in the registry.
HasStatus(id, status) ==
    \E i \in 1..Len(threats) : threats[i].id = id /\ threats[i].status = status

-----------------------------------------------------------------------------
(* C1..C10 *)

\* C1: in every reachable state the log holds at most 50 entries, whichever
\* handler appended last (the interval callback or patchThreat's audit entry).
LogBounded == Len(logs) <= LogCap

\* C2: in every reachable state cpu, memory, network and threatLevel lie in
\* [0,100], whatever number the oracle returned as overallThreatScore.
GaugesInRange ==
    /\ metrics.cpu \in 0..GaugeMax
    /\ metrics.memory \in 0..GaugeMax
    /\ metrics.network \in 0..GaugeMax
    /\ IsNum(metrics.threatLevel) => metrics.threatLevel.num \in 0..GaugeMax

\* C3: a second patchThreat(id) right after a first one that patched an
\* active threat leaves the status as it is, appends no log entry and does
\* not lower threatLevel again.
PatchIdempotent ==
    [][\A id \in PatchIds :
          (patchedId = id /\ HasStatus(id, "patched") /\ IsPatchCall(id))
              => /\ threats' = threats
                 /\ logs' = logs
                 /\ metrics'.threatLevel = metrics.threatLevel]_vars

\* C4: patchThreat(id) for an id no threat of the registry has leaves the
\* registry, the four metrics and the log unchanged.
UnknownIdNoOp ==
    [][\A id \in PatchIds :
          (~Known(id) /\ IsPatchCall(id))
              => /\ threats' = threats
                 /\ metrics' = metrics
                 /\ logs' = logs]_vars

\* C5: at most one oracle request is in flight, and a handleDeepScan called
\* while isScanning issues no request and changes no state.
ScanExclusive ==
    /\ [](Len(oracle) <= 1)
    /\ [][(isScanning /\ handleDeepScan) => UNCHANGED <<appState, oracle, clock>>]_vars

\* C5 witness: a handleDeepScan has just returned at its guard, the one
\* request still in flight.
ScanRefusedWhileInFlight == scanRefused /\ isScanning /\ Len(oracle) = 1

\* C6: when the oracle call fails (the promise rejects, or the body is no
\* JSON), the continuation writes neither the registry nor the metrics, and
\* sets the 'scan interrupted' message.
ScanFailureIntact ==
    [][(IsResume /\ CallFailed(delivered'))
          => /\ threats' = threats
             /\ metrics' = metrics
             /\ terminalText' = ScanInterruptedText]_vars

\* C6 witness: a failed call has just ended, after an earlier scan filled the
\* registry and an interval callback ran.
FailedScanAfterActivity ==
    /\ CallFailed(delivered)
    /\ terminalText = ScanInterruptedText
    /\ threats /= <<>>
    /\ logs /= <<>>

\* C7: when the body parses as JSON but violates the required shape, the scan
\* ends like a failed call: nothing is ingested, threatLevel is not written
\* and the 'scan interrupted' message is set.
SchemaViolationRejected ==
    [][(IsResume /\ delivered'.kind = "json" /\ ~WellFormed(delivered'))
          => /\ threats' = threats
             /\ metrics'.threatLevel = metrics.threatLevel
             /\ terminalText' = ScanInterruptedText]_vars

\* The threat carries the finding's four fields and is active.
Carries(t, f) ==
    /\ t.type = f.type
    /\ t.severity = f.severity
    /\ t.description = f.description
    /\ t.remediation = f.remediation
    /\ t.status = "active"

\* C8: when the oracle returns a well-formed answer with at most 10 findings
\* and a score in [0,100], then after the continuation every finding is in
\* the registry as an active threat with its four fields, threatLevel is the
\* score, the message is 'scan complete' and isScanning is false.
ScanSuccess ==
    [][(/\ IsResume
        /\ WellFormed(delivered')
        /\ Len(delivered'.findings) <= ThreatCap
        /\ delivered'.score.num \in 0..GaugeMax)
          => /\ \A i \in 1..Len(delivered'.findings) :
                   \E j \in 1..Len(threats') : Carries(threats'[j], delivered'.findings[i])
             /\ metrics'.threatLevel = delivered'.score
             /\ terminalText' = ScanCompleteText
             /\ isScanning' = FALSE]_vars

\* C8 witness: a well-formed answer with two findings and score 100 has just
\* been ingested into a registry that already held threats.
TwoFindingsIngested ==
    /\ delivered = Json(<<FBug, FLeak>>, JSNum(100))
    /\ Len(threats) > 2
    /\ metrics.threatLevel = JSNum(100)
    /\ terminalText = ScanCompleteText

\* C9: patchThreat(id) for an id an active threat has, at threatLevel L, in
\* one step marks the threats with that id patched, sets threatLevel to
\* max(0, L - 15) and appends exactly one entry, of level security and source
\* LeakGuard, at the end of the log; the other threats and cpu, memory and
\* network are unchanged.
EffectivePatch ==
    [][\A id \in PatchIds :
          (HasStatus(id, "active") /\ IsNum(metrics.threatLevel) /\ IsPatchCall(id))
              => /\ Len(threats') = Len(threats)
                 /\ \A i \in 1..Len(threats) :
                       threats'[i] = IF threats[i].id = id
                                     THEN [threats[i] EXCEPT !.status = "patched"]
                                     ELSE threats[i]
                 /\ metrics'.threatLevel = JSNum(Max(0, metrics.threatLevel.num - PatchDecay))
                 /\ metrics'.cpu = metrics.cpu
                 /\ metrics'.memory = metrics.memory
                 /\ metrics'.network = metrics.network
                 /\ Len(logs') = Len(logs) + 1
                 /\ SubSeq(logs', 1, Len(logs)) = logs
                 /\ logs'[Len(logs')].level = "security"
                 /\ logs'[Len(logs')].source = "LeakGuard"]_vars

\* C9 witness: patchThreat has just patched a threat while another stayed
\* active, and threatLevel reached the floor.
PatchedOneOfTwo ==
    /\ patchedId /= NoPatch
    /\ HasStatus(patchedId, "patched")
    /\ \E i \in 1..Len(threats) : threats[i].status = "active"
    /\ metrics.threatLevel = JSNum(0)
    /\ logs /= <<>>

\* C10: in every reachable state the registry holds at most 10 threats.
RegistryBounded == Len(threats) <= ThreatCap

\* C10 witness: an answer with more than 10 findings has just been ingested
\* and the registry is full.
RegistryFull ==
    /\ Len(delivered.findings) > ThreatCap
    /\ Len(threats) = ThreatCap

-----------------------------------------------------------------------------
(* C11..C20 *)

\* The continuation reached its setters: result.findings is an array.
Ingested(r) == r.kind = "json" /\ r.shape = "array"

\* C11: ingesting findings F into a registry R yields the first 10 elements
\* of F (in the oracle's order) followed by R (in its order): entries are
\* dropped from the tail only, by position, whatever their status or severity.
IngestOrder ==
    [][(IsResume /\ Ingested(delivered'))
          => /\ Len(threats') = Min(ThreatCap, Len(delivered'.findings) + Len(threats))
             /\ \A i \in 1..Len(threats') :
                   IF i <= Len(delivered'.findings)
                   THEN Carries(threats'[i], delivered'.findings[i])
                   ELSE threats'[i] = threats[i - Len(delivered'.findings)]]_vars

\* C11 witness: one finding has just been put in front of a registry that was
\* full, behind it a patched threat and active ones: the last threat, active,
\* was dropped.
IngestedIntoFullRegistry ==
    /\ delivered = Json(<<FLeak>>, JSNum(42))
    /\ Len(threats) = ThreatCap
    /\ Carries(threats[1], FLeak)
    /\ threats[2].status = "patched"
    /\ \A i \in 3..ThreatCap : Carries(threats[i], FBug)

\* The threats among the first i that are not patched.
Unpatched(i) == {j \in 1..i : threats[j].status /= "patched"}

\* This step is a call of clearPatched: a handler ran, and it was none of the
\* others.
IsClearCall ==
    /\ steps' = steps + 1
    /\ clock' = clock
    /\ patchedId' = NoPatch
    /\ delivered' = NotResumed
    /\ ~scanRefused'
    /\ isShieldActive' = isShieldActive
    /\ isScanning' = isScanning

\* C12: after clearPatched no threat is patched, every threat that was not
\* patched is still there, unchanged and in the same relative order, and the
\* log, the metrics, the shield and the scan phase are unchanged.
ClearPatchedCorrect ==
    [][IsClearCall
          => /\ \A j \in 1..Len(threats') : threats'[j].status /= "patched"
             /\ Len(threats') = Cardinality(Unpatched(Len(threats)))
             /\ \A i \in Unpatched(Len(threats)) :
                   threats'[Cardinality(Unpatched(i))] = threats[i]
             /\ UNCHANGED <<logs, metrics, isShieldActive, isScanning, terminalText,
                            oracle>>]_vars

\* C12 witness: of the two threats of one answer the first was patched (its
\* audit entry is in the log) and then cleared; the second remains, active.
PatchedThreatCleared ==
    /\ Len(threats) = 1
    /\ Carries(threats[1], FLeak)
    /\ threats[1].id = "r2"
    /\ ~Known("r1")
    /\ Len(logs) = 1
    /\ logs[1].id = "patch-r1"
    /\ metrics.threatLevel = JSNum(85)
    /\ patchedId = NoPatch

\* Only interval callbacks have run.
OnlyTicks == steps * TickPeriod = clock

\* C13: after more than 50 interval callbacks and no other append, the log
\* holds exactly 50 entries: the 50 generated last, oldest first (an entry is
\* known by the time it was generated at).
BoundedFifoHistory ==
    (OnlyTicks /\ steps > LogCap)
        => /\ Len(logs) = LogCap
           /\ \A i \in 1..Len(logs) :
                 logs[i] = NewLog(DrawHigh, clock - (LogCap - i) * TickPeriod)

\* C13 witness: the 52nd interval callback in a row has run.
FiftyTwoTicks == OnlyTicks /\ steps = LogCap + 2 /\ Len(logs) = LogCap

\* C14: whenever a scan is in flight and its call ends, however it ends, the
\* phase is Idle again: the continuation clears isScanning on every outcome,
\* and a scan requested while Idle is accepted.
ScanReturnsToIdle ==
    /\ isScanning ~> ~isScanning
    /\ [][IsResume => (~isScanning' /\ Len(oracle') = Len(oracle) - 1)]_vars
    /\ [][(~isScanning /\ handleDeepScan)
             => (isScanning' /\ ~scanRefused' /\ Len(oracle') = Len(oracle) + 1)]_vars

\* C14 witness: a call answered with findings that are no array has ended,
\* and the phase is Idle.
IdleAfterMalformedAnswer ==
    /\ delivered = FindingsNotArray
    /\ ~isScanning
    /\ oracle = <<>>
    /\ terminalText = ScanInterruptedText

\* This step is a run of the interval callback.
IsTick == steps' = steps + 1 /\ clock' /= clock

\* This step is a click on the shield button.
IsToggle == steps' = steps + 1 /\ isShieldActive' /= isShieldActive

\* What a run of the interval callback does to the application state.
TickEffect ==
    /\ Len(logs') >= 1
    /\ SubSeq(logs', 1, Len(logs') - 1) = SliceLast(logs, LogCap - 1)
    /\ logs'[Len(logs')].level \in {"info", "warning", "error"}
    /\ metrics'.threatLevel = metrics.threatLevel
    /\ UNCHANGED <<threats, isShieldActive>>

\* What patchThreat(id) does to the application state.
PatchEffect(id) ==
    /\ Len(threats') = Len(threats)
    /\ \A i \in 1..Len(threats) :
          threats'[i] = IF threats[i].id = id
                        THEN [threats[i] EXCEPT !.status = "patched"]
                        ELSE threats[i]
    /\ IsNum(metrics.threatLevel)
          => metrics'.threatLevel = JSNum(Max(0, metrics.threatLevel.num - PatchDecay))
    /\ metrics'.cpu = metrics.cpu
    /\ metrics'.memory = metrics.memory
    /\ metrics'.network = metrics.network
    /\ Len(logs') = Len(logs) + 1
    /\ SubSeq(logs', 1, Len(logs)) = logs
    /\ logs'[Len(logs')].level = "security"
    /\ UNCHANGED isShieldActive

\* What clearPatched does to the application state.
ClearEffect ==
    /\ Len(threats') = Cardinality(Unpatched(Len(threats)))
    /\ \A i \in Unpatched(Len(threats)) : threats'[Cardinality(Unpatched(i))] = threats[i]
    /\ UNCHANGED <<logs, metrics, isShieldActive>>

\* What a click on the shield button does to the application state.
ToggleEffect ==
    /\ isShieldActive' = ~isShieldActive
    /\ UNCHANGED <<logs, metrics, threats>>

\* C15: while a scan is in flight only a scan request is refused: the
\* interval callback, toggleShield, patchThreat and clearPatched can all run,
\* and each has on the log, the metrics, the threats and the shield the effect
\* it has at any time, and leaves the scan alone.
OnlyScanBlocked ==
    /\ [](isScanning => /\ ENABLED (\E d \in TickDraws : Tick(d))
                        /\ ENABLED toggleShield
                        /\ ENABLED clearPatched
                        /\ \A id \in PatchIds : ENABLED patchThreat(id))
    /\ [][IsTick => TickEffect]_vars
    /\ [][IsToggle => ToggleEffect]_vars
    /\ [][IsClearCall => ClearEffect]_vars
    /\ [][\A id \in PatchIds : IsPatchCall(id) => PatchEffect(id)]_vars
    /\ [][(IsTick \/ IsToggle \/ IsClearCall \/ \E id \in PatchIds : IsPatchCall(id))
             => UNCHANGED <<isScanning, terminalText, oracle>>]_vars

\* C15 witness: patchThreat has just patched a threat while a scan was in
\* flight, and the scan still is.
PatchedDuringScan ==
    /\ isScanning
    /\ Len(oracle) = 1
    /\ patchedId /= NoPatch
    /\ HasStatus(patchedId, "patched")

\* The ids of the entries of a log or of a registry.
Ids(arr) == {arr[i].id : i \in 1..Len(arr)}

\* C16: whenever a log entry is appended (by the interval callback or by
\* patchThreat) its id differs from the id of every entry the log then holds,
\* and whenever threats are inserted their ids differ from the id of every
\* threat the registry then holds and from one another.
IdsUniqueAtInsertion ==
    /\ [][(IsTick \/ \E id \in PatchIds : IsPatchCall(id))
             => logs'[Len(logs')].id \notin Ids(logs)]_vars
    /\ [][(IsResume /\ Ingested(delivered'))
             => \A i \in 1..Min(Len(delivered'.findings), Len(threats')) :
                   /\ threats'[i].id \notin Ids(threats)
                   /\ \A j \in 1..Min(Len(delivered'.findings), Len(threats')) :
                         threats'[i].id = threats'[j].id => i = j]_vars

\* The threats a continuation step has put in front of the registry.
Inserted == 1..Min(Len(delivered'.findings), Len(threats'))

\* C17: a threat enters the registry active; its status changes only from
\* active to patched, and only in a call of patchThreat with its id; a
\* patched threat never becomes active again; and no threat ever has the
\* status analyzing, whatever the findings of the oracle carry.
ThreatLifecycle ==
    /\ [](\A i \in 1..Len(threats) : threats[i].status \in {"active", "patched"})
    /\ [][(IsResume /\ Ingested(delivered'))
             => /\ \A i \in Inserted : threats'[i].status = "active"
                /\ \A i \in 1..Len(threats') :
                      i \notin Inserted
                          => threats'[i].status
                                 = threats[i - Len(delivered'.findings)].status]_vars
    /\ [][(~IsResume /\ Len(threats') = Len(threats))
             => \A i \in 1..Len(threats) :
                   threats'[i].status /= threats[i].status
                       => /\ threats[i].status = "active"
                          /\ threats'[i].status = "patched"
                          /\ IsPatchCall(threats[i].id)]_vars
    /\ [][(~IsResume /\ Len(threats') /= Len(threats))
             => \A j \in 1..Len(threats') :
                   \E i \in 1..Len(threats) : threats'[j] = threats[i]]_vars

\* C17 witness: a finding that came with a status of its own, analyzing, is in
\* the registry as an active threat, next to a patched one.
OwnStatusIgnored ==
    /\ delivered = Json(<<FOwnId, FLeak>>, JSNum(30))
    /\ FOwnId.status = "analyzing"
    /\ Carries(threats[1], FOwnId)
    /\ threats[1].status = "active"
    /\ \E i \in 1..Len(threats) : threats[i].status = "patched"

\* C18: the shield is advisory only. toggleShield flips the flag and leaves
\* the log, the metrics, the threats, the scan phase and the status message
\* alone; the interval callback and a scan request can run and do the same
\* whether the shield is on or off, but for the shield line of the request.
ShieldAdvisory ==
    /\ [][IsToggle => /\ ToggleEffect
                      /\ UNCHANGED <<isScanning, terminalText, oracle>>]_vars
    /\ [](/\ ENABLED (\E d \in TickDraws : Tick(d))
          /\ ENABLED handleDeepScan)
    /\ [][IsTick => /\ TickEffect
                    /\ UNCHANGED <<isScanning, terminalText, oracle>>]_vars
    /\ [][(steps' = steps + 1 /\ scanRefused') => isScanning]_vars
    /\ [][(~isScanning /\ isScanning')
             => /\ terminalText' = ScanStartingText
                /\ Len(oracle') = Len(oracle) + 1
                /\ oracle'[Len(oracle')].lines = Prompt(logs, TRUE).lines
                /\ oracle'[Len(oracle')].lines = Prompt(logs, FALSE).lines
                /\ oracle'[Len(oracle')].shield
                      = IF isShieldActive THEN "ACTIVE" ELSE "INACTIVE"
                /\ UNCHANGED <<logs, metrics, threats, isShieldActive>>]_vars

\* C18 witness: with the shield off, the interval callback has run and a scan
\* has been started; its request says the shield is inactive.
ScanStartedShieldOff ==
    /\ ~isShieldActive
    /\ isScanning
    /\ terminalText = ScanStartingText
    /\ Len(oracle) = 1
    /\ oracle[1].shield = "INACTIVE"
    /\ Len(oracle[1].lines) >= 1

\* C19: the continuation of a scan writes the threat list, by putting the new
\* threats in front of the registry as it is when the continuation runs, and
\* threatLevel, and nothing else: cpu, memory and network keep the values of
\* the latest interval callback, the log keeps the entries appended while the
\* scan was in flight, and patches and removals made meanwhile stay.
ScanKeepsConcurrentChanges ==
    [][IsResume
          => /\ logs' = logs
             /\ metrics'.cpu = metrics.cpu
             /\ metrics'.memory = metrics.memory
             /\ metrics'.network = metrics.network
             /\ isShieldActive' = isShieldActive
             /\ IF Ingested(delivered')
                THEN /\ Len(threats')
                           = Min(ThreatCap, Len(delivered'.findings) + Len(threats))
                     /\ \A i \in 1..Len(threats') :
                           i \notin Inserted
                               => threats'[i] = threats[i - Len(delivered'.findings)]
                ELSE /\ threats' = threats
                     /\ metrics' = metrics]_vars

\* C19 witness: a continuation has put its finding in front of a registry in
\* which a threat had been patched, after an interval callback had moved the
\* gauges and the patch had left its audit entry behind the telemetry.
IngestedOverChanges ==
    /\ delivered = Json(<<FLeak>>, JSNum(42))
    /\ metrics.threatLevel = JSNum(42)
    /\ metrics.cpu /= 12
    /\ Len(threats) = 3
    /\ Carries(threats[1], FLeak)
    /\ threats[2].status = "patched"
    /\ threats[3].status = "active"
    /\ Len(logs) = 2
    /\ logs[1].level = "security"
    /\ logs[2].level /= "security"

\* C20: the last writer of threatLevel wins. A continuation that ingests sets
\* threatLevel to the score of the answer, whatever a patch made of it while
\* the scan was in flight; a patch of an active threat right after such a
\* continuation with a number s as score sets it to max(0, s - 15).
LastWriterWins ==
    /\ [][(IsResume /\ Ingested(delivered'))
             => metrics'.threatLevel = delivered'.score]_vars
    /\ [][\A id \in PatchIds :
             (/\ Ingested(delivered)
              /\ IsNum(delivered.score)
              /\ HasStatus(id, "active")
              /\ IsPatchCall(id))
                 => metrics'.threatLevel
                        = JSNum(Max(0, delivered.score.num - PatchDecay))]_vars

\* C20 witness: a scan has completed with score 42 although a patch, whose
\* audit entry is the last of the log, had lowered threatLevel from 100 to 85
\* before: threatLevel is 42.
ScoreOverwritesDecay ==
    /\ delivered = Json(<<FLeak>>, JSNum(42))
    /\ metrics.threatLevel = JSNum(42)
    /\ Len(threats) = 3
    /\ threats[2].status = "patched"
    /\ Len(logs) = 1
    /\ logs[1].id = "patch-r1"

====
